---- MODULE Spec2Model ----
(***************************************************************************)
(* Lemonade Tycoon (src/main.py): the single GameState object `game` and   *)
(* the HTTP handlers that mutate it.                                       *)
(*                                                                         *)
(* Number representation.  The program computes money in binary floating   *)
(* point; the model computes the same quantities exactly, in mills         *)
(* (1/1000 dollar): 25.0 is 25000, the unit cost 0.05 is 50.  Ratios and   *)
(* multipliers with one decimal are kept in tenths (1.3 is 13), ice_save   *)
(* in tenths, stars in hundredths.  Where the floating-point result        *)
(* differs from the exact one in a way that changes an integer the program *)
(* stores (the ice melt count), the operator follows the floating-point    *)
(* result and says so.                                                     *)
(***************************************************************************)
EXTENDS Integers, Sequences, FiniteSets, TLC

VARIABLES game, call

vars == <<game, call>>

(***************************************************************************)
(* Bounds of the model.                                                    *)
(***************************************************************************)
\* Spec sends start-day while game.day <= MaxDay
MaxDay == 1
\* SpecDay sends start-day while game.day <= MaxSeason
MaxSeason == 2
\* a purchase is sent for an item whose count is not negative, and only if it
\* leaves the count <= MaxStock
MaxStock == 20

(***************************************************************************)
(* Game configuration.                                                     *)
(***************************************************************************)
COSTS == [lemons |-> 500, sugar |-> 200, cups |-> 100, ice |-> 50]

UPGRADES ==
    [juicer |-> << [cost |-> 0, speed |-> 10, quality |-> 10],
                   [cost |-> 50000, speed |-> 15, quality |-> 12],
                   [cost |-> 200000, speed |-> 30, quality |-> 15] >>,
     stand |-> << [cost |-> 0, rep_cap |-> 30, appeal |-> 10],
                  [cost |-> 100000, rep_cap |-> 60, appeal |-> 13],
                  [cost |-> 500000, rep_cap |-> 100, appeal |-> 20] >>,
     fridge |-> << [cost |-> 0, ice_save |-> 0],
                   [cost |-> 150000, ice_save |-> 4],
                   [cost |-> 400000, ice_save |-> 8] >>,
     marketing |-> << [cost |-> 0, boost |-> 0],
                      [cost |-> 75000, boost |-> 5],
                      [cost |-> 300000, boost |-> 15],
                      [cost |-> 800000, boost |-> 30] >>]

UpgradeTypes == DOMAIN UPGRADES

\* the "type" of each entry of EVENTS, in list order
EVENTS == <<"critic", "celebrity", "inspector", "rival", "rush", "outage", "festival">>

ACHIEVEMENTS ==
    [first_sale |-> 5000, hundred_sales |-> 50000, thousand_sales |-> 200000,
     profit_master |-> 100000, five_star |-> 150000, tycoon |-> 300000,
     perfect_day |-> 75000, ice_king |-> 50000]

Weathers == {"sunny", "cloudy", "rainy", "hot"}

\* the value None
None == "None"

(***************************************************************************)
(* GameState.__init__ without a snapshot file, and GameState.reset.        *)
(***************************************************************************)
InitGame ==
    [cash |-> 25000,
     day |-> 1,
     reputation |-> 10,
     stars |-> 100,
     inventory |-> [lemons |-> 5, sugar |-> 5, cups |-> 10, ice |-> 0],
     price |-> 1000,
     recipe |-> [lemon_ratio |-> 10, sugar_ratio |-> 10],
     upgrades |-> [juicer |-> 0, stand |-> 0, fridge |-> 0, marketing |-> 0],
     stats |-> [total_sales |-> 0, total_revenue |-> 0, best_day |-> 0, perfect_days |-> 0],
     achievements |-> << >>,
     history |-> << >>,
     weather |-> "sunny",
     next_weather |-> "cloudy",
     active_event |-> None,
     streak |-> 0]

Init ==
    /\ game = InitGame
    /\ call = [op |-> "construct"]

(***************************************************************************)
(* Requests the model sends.  Prices are in mills, ratios in tenths.       *)
(***************************************************************************)
PriceInputs == {9, 10, 10000, 10001}

RecipeInputs == {[lemon_ratio |-> 4, sugar_ratio |-> 16],
                 [lemon_ratio |-> 16, sugar_ratio |-> 16]}

BuyRequests ==
    {[item |-> "ice", quantity |-> 10],
     [item |-> "lemons", quantity |-> 60],
     [item |-> "lemons", quantity |-> -1200],
     [item |-> "gold", quantity |-> 1]}

UpgradeRequests == {"stand", "fridge", "sign"}

\* the requests of the specification SpecDay
DayRecipeInputs == {[lemon_ratio |-> 16, sugar_ratio |-> 16],
                    [lemon_ratio |-> 4, sugar_ratio |-> 4]}

DayBuyRequests ==
    {[item |-> "lemons", quantity |-> 15],
     [item |-> "sugar", quantity |-> 15],
     [item |-> "cups", quantity |-> 10],
     [item |-> "ice", quantity |-> 15]}

\* the requests of the specification SpecUpgrade
UpgradeBuyRequests == {[item |-> "lemons", quantity |-> -6000]}

AllUpgradeRequests == {"juicer", "stand", "fridge", "marketing"}

\* the requests of the specification SpecProfit
ProfitPriceInputs == {10000}

ProfitBuyRequests ==
    {[item |-> "lemons", quantity |-> 15],
     [item |-> "sugar", quantity |-> 15]}

(***************************************************************************)
(* Helpers.                                                                *)
(***************************************************************************)
Max(a, b) == IF a >= b THEN a ELSE b

Min(a, b) == IF a <= b THEN a ELSE b

\* x in seq
Contains(seq, x) == \E k \in 1..Len(seq) : seq[k] = x

(***************************************************************************)
(* POST /api/price                                                         *)
(***************************************************************************)
\* faulty variant: the upper bound of the price is not tested
set_price_no_ceiling(price) ==
    IF 10 <= price
    THEN /\ game' = [game EXCEPT !.price = price]
         /\ call' = [op |-> "set_price", price |-> price,
                     response |-> [success |-> TRUE]]
    ELSE /\ game' = game
         /\ call' = [op |-> "set_price", price |-> price,
                     response |-> [success |-> FALSE, message |-> "Invalid price"]]

\* faulty variant: an accepted price also recomputes the stars
set_price_refreshes_stars(price) ==
    IF 10 <= price /\ price <= 10000
    THEN /\ game' = [game EXCEPT !.price = price,
                                 !.stars = 100 + game.reputation * 4]
         /\ call' = [op |-> "set_price", price |-> price,
                     response |-> [success |-> TRUE]]
    ELSE /\ game' = game
         /\ call' = [op |-> "set_price", price |-> price,
                     response |-> [success |-> FALSE, message |-> "Invalid price"]]

set_price(price) ==
    IF 10 <= price /\ price <= 10000
    THEN /\ game' = [game EXCEPT !.price = price]
         /\ call' = [op |-> "set_price", price |-> price,
                     response |-> [success |-> TRUE]]
    ELSE /\ game' = game
         /\ call' = [op |-> "set_price", price |-> price,
                     response |-> [success |-> FALSE, message |-> "Invalid price"]]

(***************************************************************************)
(* POST /api/recipe                                                        *)
(***************************************************************************)
\* faulty variant: the ratios are capped at 1.5 but have no floor
set_recipe_no_floor(data) ==
    /\ game' = [game EXCEPT
                  !.recipe.lemon_ratio = Min(15, data.lemon_ratio),
                  !.recipe.sugar_ratio = Min(15, data.sugar_ratio)]
    /\ call' = [op |-> "set_recipe", data |-> data, response |-> [success |-> TRUE]]

set_recipe(data) ==
    /\ game' = [game EXCEPT
                  !.recipe.lemon_ratio = Max(5, Min(15, data.lemon_ratio)),
                  !.recipe.sugar_ratio = Max(5, Min(15, data.sugar_ratio))]
    /\ call' = [op |-> "set_recipe", data |-> data, response |-> [success |-> TRUE]]

(***************************************************************************)
(* POST /api/buy                                                           *)
(***************************************************************************)
\* faulty variant: an accepted purchase is charged the unit cost
buy_item_unit_charge(data) ==
    IF data.item \notin DOMAIN COSTS
    THEN /\ game' = game
         /\ call' = [op |-> "buy_item", data |-> data,
                     response |-> [status_code |-> 400, detail |-> "Invalid item"]]
    ELSE LET cost == COSTS[data.item] * data.quantity IN
         IF game.cash >= cost
         THEN /\ game' = [game EXCEPT
                            !.cash = @ - COSTS[data.item],
                            !.inventory[data.item] = @ + data.quantity]
              /\ call' = [op |-> "buy_item", data |-> data,
                          response |-> [success |-> TRUE]]
         ELSE /\ game' = game
              /\ call' = [op |-> "buy_item", data |-> data,
                          response |-> [success |-> FALSE, message |-> "Not enough cash!"]]

\* faulty variant: the cost is deducted before the cash is tested
buy_item_charge_first(data) ==
    IF data.item \notin DOMAIN COSTS
    THEN /\ game' = game
         /\ call' = [op |-> "buy_item", data |-> data,
                     response |-> [status_code |-> 400, detail |-> "Invalid item"]]
    ELSE LET cost == COSTS[data.item] * data.quantity IN
         IF game.cash >= cost
         THEN /\ game' = [game EXCEPT
                            !.cash = @ - cost,
                            !.inventory[data.item] = @ + data.quantity]
              /\ call' = [op |-> "buy_item", data |-> data,
                          response |-> [success |-> TRUE]]
         ELSE /\ game' = [game EXCEPT !.cash = @ - cost]
              /\ call' = [op |-> "buy_item", data |-> data,
                          response |-> [success |-> FALSE, message |-> "Not enough cash!"]]

buy_item(data) ==
    IF data.item \notin DOMAIN COSTS
    THEN /\ game' = game
         /\ call' = [op |-> "buy_item", data |-> data,
                     response |-> [status_code |-> 400, detail |-> "Invalid item"]]
    ELSE LET cost == COSTS[data.item] * data.quantity IN
         IF game.cash >= cost
         THEN /\ game' = [game EXCEPT
                            !.cash = @ - cost,
                            !.inventory[data.item] = @ + data.quantity]
              /\ call' = [op |-> "buy_item", data |-> data,
                          response |-> [success |-> TRUE]]
         ELSE /\ game' = game
              /\ call' = [op |-> "buy_item", data |-> data,
                          response |-> [success |-> FALSE, message |-> "Not enough cash!"]]

(***************************************************************************)
(* POST /api/upgrade.  Levels are the program's 0-based indices; tier      *)
(* lists are 1-based sequences here, so tier `level` is UPGRADES[t][level+1]. *)
(***************************************************************************)
\* faulty variant: the cost charged and tested is that of the current tier
buy_upgrade_current_cost(u_type) ==
    IF u_type \notin DOMAIN UPGRADES
    THEN /\ game' = game
         /\ call' = [op |-> "buy_upgrade", type |-> u_type,
                     response |-> [status_code |-> 400, detail |-> "Invalid upgrade type"]]
    ELSE LET current_level == game.upgrades[u_type]
             next_level_idx == current_level + 1
         IN IF current_level >= Len(UPGRADES[u_type]) - 1
            THEN /\ game' = game
                 /\ call' = [op |-> "buy_upgrade", type |-> u_type,
                             response |-> [success |-> FALSE, message |-> "Max level reached"]]
            ELSE LET cost == UPGRADES[u_type][current_level + 1].cost IN
                 IF game.cash >= cost
                 THEN /\ game' = [game EXCEPT !.cash = @ - cost,
                                              !.upgrades[u_type] = next_level_idx]
                      /\ call' = [op |-> "buy_upgrade", type |-> u_type,
                                  response |-> [success |-> TRUE]]
                 ELSE /\ game' = game
                      /\ call' = [op |-> "buy_upgrade", type |-> u_type,
                                  response |-> [success |-> FALSE, message |-> "Not enough cash!"]]

\* faulty variant: a track at its last tier is advanced once more, at no cost
buy_upgrade_past_last(u_type) ==
    IF u_type \notin DOMAIN UPGRADES
    THEN /\ game' = game
         /\ call' = [op |-> "buy_upgrade", type |-> u_type,
                     response |-> [status_code |-> 400, detail |-> "Invalid upgrade type"]]
    ELSE LET current_level == game.upgrades[u_type]
             next_level_idx == current_level + 1
         IN IF current_level >= Len(UPGRADES[u_type])
            THEN /\ game' = game
                 /\ call' = [op |-> "buy_upgrade", type |-> u_type,
                             response |-> [success |-> FALSE, message |-> "Max level reached"]]
            ELSE LET cost == IF current_level >= Len(UPGRADES[u_type]) - 1
                             THEN 0
                             ELSE UPGRADES[u_type][next_level_idx + 1].cost IN
                 IF game.cash >= cost
                 THEN /\ game' = [game EXCEPT !.cash = @ - cost,
                                              !.upgrades[u_type] = next_level_idx]
                      /\ call' = [op |-> "buy_upgrade", type |-> u_type,
                                  response |-> [success |-> TRUE]]
                 ELSE /\ game' = game
                      /\ call' = [op |-> "buy_upgrade", type |-> u_type,
                                  response |-> [success |-> FALSE, message |-> "Not enough cash!"]]

\* faulty variant: the upgrade is sold without testing the cash
buy_upgrade_on_credit(u_type) ==
    IF u_type \notin DOMAIN UPGRADES
    THEN /\ game' = game
         /\ call' = [op |-> "buy_upgrade", type |-> u_type,
                     response |-> [status_code |-> 400, detail |-> "Invalid upgrade type"]]
    ELSE LET current_level == game.upgrades[u_type]
             next_level_idx == current_level + 1
         IN IF current_level >= Len(UPGRADES[u_type]) - 1
            THEN /\ game' = game
                 /\ call' = [op |-> "buy_upgrade", type |-> u_type,
                             response |-> [success |-> FALSE, message |-> "Max level reached"]]
            ELSE LET cost == UPGRADES[u_type][next_level_idx + 1].cost IN
                 /\ game' = [game EXCEPT !.cash = @ - cost,
                                         !.upgrades[u_type] = next_level_idx]
                 /\ call' = [op |-> "buy_upgrade", type |-> u_type,
                             response |-> [success |-> TRUE]]

buy_upgrade(u_type) ==
    IF u_type \notin DOMAIN UPGRADES
    THEN /\ game' = game
         /\ call' = [op |-> "buy_upgrade", type |-> u_type,
                     response |-> [status_code |-> 400, detail |-> "Invalid upgrade type"]]
    ELSE LET current_level == game.upgrades[u_type]
             next_level_idx == current_level + 1
         IN IF current_level >= Len(UPGRADES[u_type]) - 1
            THEN /\ game' = game
                 /\ call' = [op |-> "buy_upgrade", type |-> u_type,
                             response |-> [success |-> FALSE, message |-> "Max level reached"]]
            ELSE LET cost == UPGRADES[u_type][next_level_idx + 1].cost IN
                 IF game.cash >= cost
                 THEN /\ game' = [game EXCEPT !.cash = @ - cost,
                                              !.upgrades[u_type] = next_level_idx]
                      /\ call' = [op |-> "buy_upgrade", type |-> u_type,
                                  response |-> [success |-> TRUE]]
                 ELSE /\ game' = game
                      /\ call' = [op |-> "buy_upgrade", type |-> u_type,
                                  response |-> [success |-> FALSE, message |-> "Not enough cash!"]]

(***************************************************************************)
(* POST /api/reset                                                         *)
(***************************************************************************)
\* faulty variant: the active event survives the reset
reset_keeps_event ==
    [cash |-> 25000,
     day |-> 1,
     reputation |-> 10,
     stars |-> 100,
     inventory |-> [lemons |-> 5, sugar |-> 5, cups |-> 10, ice |-> 0],
     price |-> 1000,
     recipe |-> [lemon_ratio |-> 10, sugar_ratio |-> 10],
     upgrades |-> [juicer |-> 0, stand |-> 0, fridge |-> 0, marketing |-> 0],
     stats |-> [total_sales |-> 0, total_revenue |-> 0, best_day |-> 0, perfect_days |-> 0],
     achievements |-> << >>,
     history |-> << >>,
     weather |-> "sunny",
     next_weather |-> "cloudy",
     active_event |-> game.active_event,
     streak |-> 0]

\* faulty variant: the history survives the reset
reset_keeps_history ==
    [cash |-> 25000,
     day |-> 1,
     reputation |-> 10,
     stars |-> 100,
     inventory |-> [lemons |-> 5, sugar |-> 5, cups |-> 10, ice |-> 0],
     price |-> 1000,
     recipe |-> [lemon_ratio |-> 10, sugar_ratio |-> 10],
     upgrades |-> [juicer |-> 0, stand |-> 0, fridge |-> 0, marketing |-> 0],
     stats |-> [total_sales |-> 0, total_revenue |-> 0, best_day |-> 0, perfect_days |-> 0],
     achievements |-> << >>,
     history |-> game.history,
     weather |-> "sunny",
     next_weather |-> "cloudy",
     active_event |-> None,
     streak |-> 0]

reset ==
    [cash |-> 25000,
     day |-> 1,
     reputation |-> 10,
     stars |-> 100,
     inventory |-> [lemons |-> 5, sugar |-> 5, cups |-> 10, ice |-> 0],
     price |-> 1000,
     recipe |-> [lemon_ratio |-> 10, sugar_ratio |-> 10],
     upgrades |-> [juicer |-> 0, stand |-> 0, fridge |-> 0, marketing |-> 0],
     stats |-> [total_sales |-> 0, total_revenue |-> 0, best_day |-> 0, perfect_days |-> 0],
     achievements |-> << >>,
     history |-> << >>,
     weather |-> "sunny",
     next_weather |-> "cloudy",
     active_event |-> None,
     streak |-> 0]

reset_game ==
    /\ game' = reset
    /\ call' = [op |-> "reset_game", response |-> [success |-> TRUE]]

(***************************************************************************)
(* The random draws of start_day.  One simulated day reads a record rnd:   *)
(*   event           the first event whose roll succeeds in the event      *)
(*                   loop, or None                                         *)
(*   base_customers  random.randint(15, 35)                                *)
(*   customers       the draws of the simulation loop, one record per      *)
(*                   tick: random() > 0.6 for wanting ice, the uniform     *)
(*                   draw of the maximum price in mills, random() > 0.6    *)
(*                   for leaving when there is no ice; tick i reads entry  *)
(*                   (i mod Len) + 1                                       *)
(*   rep_roll        which end of its range the reputation randint gives   *)
(*   next_weather    random.choice of the next weather                     *)
(***************************************************************************)
Buys == [wants_ice |-> FALSE, max_price |-> 2000, leaves |-> FALSE]

Haggles == [wants_ice |-> FALSE, max_price |-> 800, leaves |-> FALSE]

WantsIceStays == [wants_ice |-> TRUE, max_price |-> 1000, leaves |-> FALSE]

WantsIceLeaves == [wants_ice |-> TRUE, max_price |-> 2000, leaves |-> TRUE]

\* the days of the specification Spec
DayDraws ==
    {[event |-> None, base_customers |-> 15, customers |-> <<Buys>>,
      rep_roll |-> "hi", next_weather |-> "hot"],
     [event |-> None, base_customers |-> 35, customers |-> <<Haggles>>,
      rep_roll |-> "lo", next_weather |-> "rainy"],
     [event |-> "celebrity", base_customers |-> 15,
      customers |-> <<WantsIceStays, Buys>>,
      rep_roll |-> "lo", next_weather |-> "sunny"],
     [event |-> "outage", base_customers |-> 15,
      customers |-> <<WantsIceLeaves, Buys>>,
      rep_roll |-> "hi", next_weather |-> "cloudy"],
     [event |-> "rival", base_customers |-> 15, customers |-> <<Buys>>,
      rep_roll |-> "hi", next_weather |-> "hot"]}

\* the days of the specification SpecDay
DayDrawsWide ==
    {[event |-> None, base_customers |-> 15, customers |-> <<Buys>>,
      rep_roll |-> "hi", next_weather |-> "hot"],
     [event |-> "rival", base_customers |-> 15, customers |-> <<Buys>>,
      rep_roll |-> "hi", next_weather |-> "rainy"],
     [event |-> None, base_customers |-> 35, customers |-> <<Haggles>>,
      rep_roll |-> "lo", next_weather |-> "sunny"],
     [event |-> "celebrity", base_customers |-> 15,
      customers |-> <<WantsIceStays, Haggles>>,
      rep_roll |-> "lo", next_weather |-> "hot"],
     [event |-> "outage", base_customers |-> 15,
      customers |-> <<WantsIceLeaves, Buys>>,
      rep_roll |-> "hi", next_weather |-> "cloudy"],
     [event |-> "festival", base_customers |-> 15,
      customers |-> <<Buys, Haggles>>,
      rep_roll |-> "lo", next_weather |-> "hot"],
     [event |-> "rush", base_customers |-> 15, customers |-> <<Buys>>,
      rep_roll |-> "hi", next_weather |-> "rainy"],
     [event |-> "critic", base_customers |-> 15,
      customers |-> <<WantsIceStays, Buys, Buys, Buys>>,
      rep_roll |-> "hi", next_weather |-> "hot"]}

\* random.randint(lo, hi)
RandInt(lo, hi, roll) == IF roll = "lo" THEN lo ELSE hi

(***************************************************************************)
(* start_day: quality, appeal, modifiers, customer count (lines 1262-1303) *)
(***************************************************************************)
\* overall_quality in units of 1/200: (lemon_ratio + sugar_ratio) / 2 * quality
OverallQuality(g) ==
    (g.recipe.lemon_ratio + g.recipe.sugar_ratio)
        * UPGRADES.juicer[g.upgrades.juicer + 1].quality

\* w_mod in tenths
WeatherMod(weather) ==
    CASE weather = "sunny" -> 10
      [] weather = "cloudy" -> 7
      [] weather = "rainy" -> 4
      [] weather = "hot" -> 18
      [] OTHER -> 10

\* event_customer_mod in tenths
EventCustomerMod(ev) ==
    CASE ev = "rush" -> 20
      [] ev = "festival" -> 15
      [] ev = "rival" -> 6
      [] OTHER -> 10

\* event_price_mod in tenths
EventPriceMod(ev) == IF ev = "festival" THEN 12 ELSE 10

\* special_sales
SpecialSales(ev) == IF ev = "celebrity" THEN 1 ELSE 0

\* the event loop's effect on the state: active_event is set when an event
\* triggers, and an outage without a fridge upgrade empties the ice
TriggerEvent(g, ev) ==
    LET g1 == IF ev # None THEN [g EXCEPT !.active_event = ev] ELSE g
    IN IF ev = "outage" /\ g1.upgrades.fridge = 0
       THEN [g1 EXCEPT !.inventory.ice = 0]
       ELSE g1

\* int(base * w_mod * rep_factor * stand_appeal * event_customer_mod
\*     * (1 + marketing_boost / 100)); for the values of BaseCustomerDraws the
\* floating-point product truncates to the exact quotient
PotentialCustomers(g, ev, base_customers) ==
    (base_customers * WeatherMod(g.weather) * (100 + g.reputation)
        * UPGRADES.stand[g.upgrades.stand + 1].appeal
        * EventCustomerMod(ev)
        * (100 + UPGRADES.marketing[g.upgrades.marketing + 1].boost)) \div 10000000

(***************************************************************************)
(* start_day: one iteration of the simulation loop (lines 1306-1360).      *)
(* s holds the locals the loop updates and the inventory; g is the game    *)
(* state as the loop reads it (price, weather, reputation, recipe).        *)
(***************************************************************************)
\* game.price > max_price, with max_price = draw * overall_quality
\* * event_price_mod (+ 0.50 when hot, + 0.40 when reputation > 60)
TooExpensive(g, ev, draw) ==
    g.price * 2000 >
        draw * OverallQuality(g) * EventPriceMod(ev)
        + 2000 * ((IF g.weather = "hot" THEN 500 ELSE 0)
                  + (IF g.reputation > 60 THEN 400 ELSE 0))

\* faulty variant: the ice that goes into a cup is not charged to daily_cogs
Sale_ice_uncharged(s, i, used_ice, msg, price) ==
    [s EXCEPT
       !.log = Append(@, [tick |-> i, type |-> "sale", msg |-> msg,
                          price |-> price]),
       !.revenue = @ + price,
       !.sold_count = @ + 1,
       !.inventory.lemons = @ - 1,
       !.inventory.sugar = @ - 1,
       !.inventory.cups = @ - 1,
       !.daily_cogs = @ + COSTS.lemons + COSTS.sugar + COSTS.cups,
       !.inventory.ice = IF used_ice THEN @ - 1 ELSE @]

\* a sale of tick i: the log entry, the revenue and lines 1351-1360.  msg is
\* the entry's message without its emoji
Sale(s, i, used_ice, msg, price) ==
    [s EXCEPT
       !.log = Append(@, [tick |-> i, type |-> "sale", msg |-> msg,
                          price |-> price]),
       !.revenue = @ + price,
       !.sold_count = @ + 1,
       !.inventory.lemons = @ - 1,
       !.inventory.sugar = @ - 1,
       !.inventory.cups = @ - 1,
       !.daily_cogs = @ + COSTS.lemons + COSTS.sugar + COSTS.cups
                        + (IF used_ice THEN COSTS.ice ELSE 0),
       !.inventory.ice = IF used_ice THEN @ - 1 ELSE @]

\* a miss of tick i: the log entry, which has no price, and the count
Miss(s, i, msg) ==
    [s EXCEPT !.log = Append(@, [tick |-> i, type |-> "miss", msg |-> msg]),
              !.missed_count = @ + 1]

\* faulty variant: a customer who leaves for want of ice is not counted
Customer_leaver_uncounted(g, ev, s, d, i) ==
    LET has_basics == /\ s.inventory.lemons >= 1
                      /\ s.inventory.sugar >= 1
                      /\ s.inventory.cups >= 1
        has_ice == s.inventory.ice >= 1
        wants_ice == g.weather = "hot" \/ d.wants_ice
    IN IF ~has_basics THEN Miss(s, i, "SOLD OUT")
       ELSE IF wants_ice /\ ~has_ice
            THEN IF d.leaves
                 THEN [s EXCEPT !.log = Append(@, [tick |-> i, type |-> "miss",
                                                   msg |-> "No ice!"])]
                 ELSE Sale(s, i, FALSE, "Warm sale", (g.price * 8) \div 10)
       ELSE IF TooExpensive(g, ev, d.max_price) THEN Miss(s, i, "Too expensive")
       ELSE IF OverallQuality(g) > 240
            THEN Sale(s, i, has_ice, "PREMIUM sale!", (g.price * 11) \div 10)
            ELSE Sale(s, i, has_ice, "Sold!", g.price)

\* faulty variant: a warm sale is logged at the full price
Customer_warm_logged_full(g, ev, s, d, i) ==
    LET has_basics == /\ s.inventory.lemons >= 1
                      /\ s.inventory.sugar >= 1
                      /\ s.inventory.cups >= 1
        has_ice == s.inventory.ice >= 1
        wants_ice == g.weather = "hot" \/ d.wants_ice
    IN IF ~has_basics THEN Miss(s, i, "SOLD OUT")
       ELSE IF wants_ice /\ ~has_ice
            THEN IF d.leaves THEN Miss(s, i, "No ice!")
                 ELSE [Sale(s, i, FALSE, "Warm sale", g.price)
                          EXCEPT !.revenue = s.revenue + (g.price * 8) \div 10]
       ELSE IF TooExpensive(g, ev, d.max_price) THEN Miss(s, i, "Too expensive")
       ELSE IF OverallQuality(g) > 240
            THEN Sale(s, i, has_ice, "PREMIUM sale!", (g.price * 11) \div 10)
            ELSE Sale(s, i, has_ice, "Sold!", g.price)

Customer(g, ev, s, d, i) ==
    LET has_basics == /\ s.inventory.lemons >= 1
                      /\ s.inventory.sugar >= 1
                      /\ s.inventory.cups >= 1
        has_ice == s.inventory.ice >= 1
        wants_ice == g.weather = "hot" \/ d.wants_ice
    IN IF ~has_basics THEN Miss(s, i, "SOLD OUT")
       ELSE IF wants_ice /\ ~has_ice
            THEN IF d.leaves THEN Miss(s, i, "No ice!")
                 ELSE Sale(s, i, FALSE, "Warm sale", (g.price * 8) \div 10)
       ELSE IF TooExpensive(g, ev, d.max_price) THEN Miss(s, i, "Too expensive")
       ELSE IF OverallQuality(g) > 240
            THEN Sale(s, i, has_ice, "PREMIUM sale!", (g.price * 11) \div 10)
            ELSE Sale(s, i, has_ice, "Sold!", g.price)

\* the locals before the first iteration
LoopStart(g) ==
    [inventory |-> g.inventory, log |-> << >>, sold_count |-> 0,
     missed_count |-> 0, revenue |-> 0, daily_cogs |-> 0]

\* the locals after iterations i..n-1, from their value s before iteration i
\* (t = t is true; it makes the evaluation compute iteration i before the next)
RECURSIVE SimulationLoop(_, _, _, _, _, _)
SimulationLoop(g, ev, customers, n, i, s) ==
    IF i >= n THEN s
    ELSE LET t == Customer(g, ev, s, customers[(i % Len(customers)) + 1], i)
         IN IF t = t
            THEN SimulationLoop(g, ev, customers, n, i + 1, t)
            ELSE t

(***************************************************************************)
(* GameState.check_achievement (lines 369-392): the state after the call   *)
(* and whether the achievement was awarded by it.                          *)
(***************************************************************************)
\* faulty variant: an achievement already earned is examined again
check_achievement_again(g, achievement_id) ==
    LET earned ==
            \/ achievement_id = "first_sale" /\ g.stats.total_sales >= 1
            \/ achievement_id = "hundred_sales" /\ g.stats.total_sales >= 100
            \/ achievement_id = "thousand_sales" /\ g.stats.total_sales >= 1000
            \/ achievement_id = "tycoon" /\ g.cash >= 1000000
            \/ achievement_id = "five_star" /\ g.reputation >= 100
    IN IF earned
       THEN [game |-> [g EXCEPT
                         !.achievements = Append(@, achievement_id),
                         !.cash = @ + ACHIEVEMENTS[achievement_id]],
             earned |-> TRUE]
       ELSE [game |-> g, earned |-> FALSE]

check_achievement(g, achievement_id) ==
    IF Contains(g.achievements, achievement_id)
    THEN [game |-> g, earned |-> FALSE]
    ELSE LET earned ==
                 \/ achievement_id = "first_sale" /\ g.stats.total_sales >= 1
                 \/ achievement_id = "hundred_sales" /\ g.stats.total_sales >= 100
                 \/ achievement_id = "thousand_sales" /\ g.stats.total_sales >= 1000
                 \/ achievement_id = "tycoon" /\ g.cash >= 1000000
                 \/ achievement_id = "five_star" /\ g.reputation >= 100
         IN IF earned
            THEN [game |-> [g EXCEPT
                              !.achievements = Append(@, achievement_id),
                              !.cash = @ + ACHIEVEMENTS[achievement_id]],
                  earned |-> TRUE]
            ELSE [game |-> g, earned |-> FALSE]

\* the achievement loop of start_day (lines 1430-1435) over the list ids
RECURSIVE CheckAchievements(_, _, _)
CheckAchievements(g, ids, achievements_earned) ==
    IF ids = << >>
    THEN [game |-> g, achievements_earned |-> achievements_earned]
    ELSE LET r == check_achievement(g, Head(ids))
         IN CheckAchievements(r.game, Tail(ids),
                              IF r.earned
                              THEN Append(achievements_earned, Head(ids))
                              ELSE achievements_earned)

AchievementsChecked ==
    <<"first_sale", "hundred_sales", "thousand_sales", "profit_master",
      "tycoon", "five_star">>

(***************************************************************************)
(* Arithmetic of the end of the day.                                       *)
(***************************************************************************)
\* round(x, 2) of an amount in mills: the nearest cent, a half to the even cent
Round2(m) ==
    LET a == IF m >= 0 THEN m ELSE -m
        q == a \div 10
        r == a % 10
        v == 10 * (IF r > 5 \/ (r = 5 /\ q % 2 = 1) THEN q + 1 ELSE q)
    IN IF m >= 0 THEN v ELSE -v

\* GET /api/state (lines 1175-1195): the fields of the returned view that the
\* properties read
get_state(g) ==
    [cash |-> Round2(g.cash), day |-> g.day, active_event |-> g.active_event]

\* int(ice * (1 - save_rate)) as the program's floating point computes it:
\* 1 - 0.0 is 1.0 and 1 - 0.4 is 0.6, whose products truncate to the exact
\* quotient; 1 - 0.8 is 0.19999999999999996, so a product that is exactly a
\* whole number k in exact arithmetic is just below k (above -k for a
\* negative count) and truncates to k - 1 (to -(k - 1))
IceMelted(ice, fridge_level) ==
    LET save_rate == UPGRADES.fridge[fridge_level + 1].ice_save
        a == IF ice >= 0 THEN ice ELSE -ice
        k == IF save_rate = 8 /\ a > 0 /\ (a * 2) % 10 = 0
             THEN (a * 2) \div 10 - 1
             ELSE (a * (10 - save_rate)) \div 10
    IN IF ice >= 0 THEN k ELSE -k

\* faulty variant: a conversion rate above 75% is tested before a full one
ConversionRepChange_good_first(sold_count, potential_customers, roll) ==
    IF potential_customers > 0 /\ 4 * sold_count > 3 * potential_customers
    THEN RandInt(3, 6, roll)
    ELSE IF potential_customers > 0 /\ sold_count >= potential_customers
    THEN RandInt(8, 12, roll)
    ELSE IF potential_customers <= 0 \/ 5 * sold_count < 2 * potential_customers
    THEN RandInt(-8, -3, roll)
    ELSE 0

\* rep_change before the quality adjustment, for a conversion rate of
\* sold / potential (0 when there are no potential customers)
ConversionRepChange(sold_count, potential_customers, roll) ==
    IF potential_customers > 0 /\ sold_count >= potential_customers
    THEN RandInt(8, 12, roll)
    ELSE IF potential_customers > 0 /\ 4 * sold_count > 3 * potential_customers
    THEN RandInt(3, 6, roll)
    ELSE IF potential_customers <= 0 \/ 5 * sold_count < 2 * potential_customers
    THEN RandInt(-8, -3, roll)
    ELSE 0

\* faulty variant: the reputation is not capped
NewReputation_uncapped(g, rep_change) ==
    Max(0, g.reputation + rep_change)

\* reputation after the day: clamped into [0, rep_cap of the stand]
NewReputation(g, rep_change) ==
    LET stand_cap == UPGRADES.stand[g.upgrades.stand + 1].rep_cap
    IN Max(0, Min(stand_cap, g.reputation + rep_change))

\* faulty variant: the cash receives the net profit
CashAfterDay_net(cash, revenue, daily_cogs, ice_loss_cost) ==
    cash + revenue - daily_cogs - ice_loss_cost

\* game.cash += revenue: neither the cost of goods nor the ice loss is taken
CashAfterDay(cash, revenue, daily_cogs, ice_loss_cost) == cash + revenue

\* faulty variant: a day that breaks even extends the streak
StreakAfterDay_break_even(streak, net_profit) ==
    IF net_profit >= 0 THEN streak + 1 ELSE 0

\* the streak after a day of the given net profit
StreakAfterDay(streak, net_profit) ==
    IF net_profit > 0 THEN streak + 1 ELSE 0

\* faulty variant: the new draw is taken as the weather and as the forecast
Rollover_redrawn(g, next_w) ==
    [g EXCEPT !.day = @ + 1,
              !.weather = next_w,
              !.next_weather = next_w]

\* the day counter advances, the forecast becomes the weather and next_w,
\* the draw of random.choice, becomes the forecast
Rollover(g, next_w) ==
    [g EXCEPT !.day = @ + 1,
              !.weather = g.next_weather,
              !.next_weather = next_w]

(***************************************************************************)
(* start_day after the loop (lines 1362-1468).  g is the state the loop    *)
(* read, s the locals and inventory it left; roll is the reputation draw   *)
(* and next_w the weather draw.  The result holds the new state and the    *)
(* handler's locals.                                                       *)
(***************************************************************************)
EndOfDay(g, ev, s, potential_customers, roll, next_w) ==
    LET revenue == s.revenue + (IF SpecialSales(ev) > 0 THEN 50000 ELSE 0)
        log == IF SpecialSales(ev) > 0
               THEN Append(s.log, [tick |-> Len(s.log), type |-> "special",
                                   msg |-> "CELEBRITY TIP!", price |-> 50000])
               ELSE s.log
        perfect == potential_customers > 0 /\ s.sold_count >= potential_customers
        g1 == [g EXCEPT !.inventory = s.inventory]
        g2 == IF perfect
              THEN check_achievement(
                       [g1 EXCEPT !.stats.perfect_days = @ + 1], "perfect_day").game
              ELSE g1
        rep_change == ConversionRepChange(s.sold_count, potential_customers, roll)
                      + (IF OverallQuality(g) > 260 THEN 3
                         ELSE IF OverallQuality(g) < 160 THEN -3 ELSE 0)
        reputation == NewReputation(g2, rep_change)
        ice_before_melt == g2.inventory.ice
        ice_melted_count == IceMelted(ice_before_melt, g2.upgrades.fridge)
        ice_loss_cost == ice_melted_count * COSTS.ice
        net_profit == revenue - s.daily_cogs - ice_loss_cost
        cash == CashAfterDay(g2.cash, revenue, s.daily_cogs, ice_loss_cost)
        g3a == [g2 EXCEPT
                 !.reputation = reputation,
                 !.stars = 100 + reputation * 4,
                 !.inventory.ice = @ - ice_melted_count,
                 !.cash = cash,
                 !.streak = StreakAfterDay(@, net_profit),
                 !.stats.total_sales = @ + s.sold_count,
                 !.stats.total_revenue = @ + revenue,
                 !.stats.best_day = IF s.sold_count > @ THEN s.sold_count ELSE @,
                 !.history = Append(@, [day |-> g2.day,
                                        cash |-> Round2(cash),
                                        revenue |-> Round2(revenue),
                                        net_profit |-> Round2(net_profit),
                                        sales |-> s.sold_count])]
        g3 == Rollover(g3a, next_w)
        a1 == CheckAchievements(g3, AchievementsChecked, << >>)
        a2 == IF net_profit >= 100000
              THEN LET r == check_achievement(a1.game, "profit_master")
                   IN [game |-> r.game,
                       achievements_earned |->
                           IF r.earned
                           THEN Append(a1.achievements_earned, "profit_master")
                           ELSE a1.achievements_earned]
              ELSE a1
    IN [game |-> a2.game,
        triggered_event |-> ev,
        potential_customers |-> potential_customers,
        ice_before_melt |-> ice_before_melt,
        ice_melted_count |-> ice_melted_count,
        revenue |-> revenue,
        net_profit |-> net_profit,
        log |-> log,
        new_state |-> get_state(a2.game),
        summary |-> [sold |-> s.sold_count,
                     missed |-> s.missed_count,
                     revenue |-> Round2(revenue),
                     cogs |-> Round2(s.daily_cogs),
                     ice_loss |-> Round2(ice_loss_cost),
                     net_profit |-> Round2(net_profit),
                     rep_change |-> rep_change],
        achievements |-> a2.achievements_earned]

(***************************************************************************)
(* POST /api/start-day                                                     *)
(***************************************************************************)
\* the whole handler run on the state g0 with the draws rnd
DayResult(g0, rnd) ==
    LET g == TriggerEvent(g0, rnd.event)
        potential_customers == PotentialCustomers(g, rnd.event, rnd.base_customers)
        s == SimulationLoop(g, rnd.event, rnd.customers, potential_customers, 0,
                            LoopStart(g))
    IN EndOfDay(g, rnd.event, s, potential_customers, rnd.rep_roll,
                rnd.next_weather)

start_day(rnd) ==
    LET r == DayResult(game, rnd)
    IN /\ game' = r.game
       /\ call' = [op |-> "start_day",
                   triggered_event |-> r.triggered_event,
                   potential_customers |-> r.potential_customers,
                   ice_before_melt |-> r.ice_before_melt,
                   ice_melted_count |-> r.ice_melted_count,
                   revenue |-> r.revenue,
                   net_profit |-> r.net_profit,
                   response |-> [log |-> r.log,
                                 summary |-> r.summary,
                                 new_state |-> r.new_state,
                                 achievements |-> r.achievements]]

(***************************************************************************)
(* start_day step by step, and reset beside it.  start_day is a coroutine  *)
(* and runs on the event loop, where no other coroutine handler runs       *)
(* before it returns (its only await follows its last write).  reset_game  *)
(* is a plain function (line 1471), which the framework runs in a worker   *)
(* thread: it can run between any two steps of a start_day in progress.    *)
(* While a day is in progress `call` holds the handler's position: the     *)
(* draws rnd, the locals of the loop and the index i of the next tick; the *)
(* inventory the loop reads and writes is game.inventory itself.  began    *)
(* is the state the day began in and reset_served tells whether a reset    *)
(* ran during the day.  The steps are the event block with the customer    *)
(* count, each tick of the loop, and the part after the loop; the reset in *)
(* the worker thread is taken whole.  No request of this specification     *)
(* changes the recipe or the juicer, so the overall_quality the handler    *)
(* keeps in a local is the one the current state gives.                    *)
(***************************************************************************)
Simulating == call.op = "simulating"

\* lines 1247-1303: the locals, the event and the number of customers
day_begin(rnd) ==
    LET g == TriggerEvent(game, rnd.event)
    IN /\ game' = g
       /\ call' = [op |-> "simulating",
                   rnd |-> rnd,
                   began |-> game,
                   reset_served |-> FALSE,
                   potential_customers |->
                       PotentialCustomers(g, rnd.event, rnd.base_customers),
                   i |-> 0, log |-> << >>,
                   sold_count |-> 0, missed_count |-> 0,
                   revenue |-> 0, daily_cogs |-> 0]

\* the locals of the loop with the inventory of the current state
LoopLocals ==
    [inventory |-> game.inventory, log |-> call.log,
     sold_count |-> call.sold_count, missed_count |-> call.missed_count,
     revenue |-> call.revenue, daily_cogs |-> call.daily_cogs]

\* lines 1306-1360: iteration i of the loop
day_tick ==
    /\ Simulating
    /\ call.i < call.potential_customers
    /\ LET rnd == call.rnd
           t == Customer(game, rnd.event, LoopLocals,
                         rnd.customers[(call.i % Len(rnd.customers)) + 1],
                         call.i)
       IN /\ game' = [game EXCEPT !.inventory = t.inventory]
          /\ call' = [call EXCEPT !.i = @ + 1,
                                  !.log = t.log,
                                  !.sold_count = t.sold_count,
                                  !.missed_count = t.missed_count,
                                  !.revenue = t.revenue,
                                  !.daily_cogs = t.daily_cogs]

\* lines 1362-1468: the part of the handler after the loop
day_end ==
    /\ Simulating
    /\ call.i >= call.potential_customers
    /\ LET rnd == call.rnd
           r == EndOfDay(game, rnd.event, LoopLocals, call.potential_customers,
                         rnd.rep_roll, rnd.next_weather)
       IN /\ game' = r.game
          /\ call' = [op |-> "start_day",
                      rnd |-> rnd,
                      began |-> call.began,
                      reset_served |-> call.reset_served,
                      triggered_event |-> r.triggered_event,
                      potential_customers |-> r.potential_customers,
                      ice_before_melt |-> r.ice_before_melt,
                      ice_melted_count |-> r.ice_melted_count,
                      revenue |-> r.revenue,
                      net_profit |-> r.net_profit,
                      response |-> [log |-> r.log,
                                    summary |-> r.summary,
                                    new_state |-> r.new_state,
                                    achievements |-> r.achievements]]

\* reset_game in its worker thread while the event loop is inside start_day
reset_in_thread ==
    /\ Simulating
    /\ game' = reset
    /\ call' = [call EXCEPT !.reset_served = TRUE]

(***************************************************************************)
(* The handlers run one at a time, each to completion.  What bounds the    *)
(* exploration: the shop requests (price, recipe, buy, upgrade) are sent   *)
(* before the first day of a game, a purchase is sent for an item whose    *)
(* count is not negative and only if it leaves the count <= MaxStock, and  *)
(* start-day is sent while game.day is at most MaxDay (MaxSeason in        *)
(* SpecDay).  reset is sent in every state.                                *)
(***************************************************************************)
ShopOpen == game.history = << >>

WithinStock(data) ==
    data.item \in DOMAIN COSTS =>
        /\ game.inventory[data.item] >= 0
        /\ game'.inventory[data.item] <= MaxStock

Next ==
    \/ ShopOpen /\ \E price \in PriceInputs : set_price(price)
    \/ ShopOpen /\ \E data \in RecipeInputs : set_recipe(data)
    \/ ShopOpen /\ \E data \in BuyRequests : buy_item(data) /\ WithinStock(data)
    \/ ShopOpen /\ \E u_type \in UpgradeRequests : buy_upgrade(u_type)
    \/ game.day <= MaxDay /\ \E rnd \in DayDraws : start_day(rnd)
    \/ reset_game

Spec == Init /\ [][Next]_vars

\* the same handlers under honest purchases and more kinds of day
NextDay ==
    \/ ShopOpen /\ \E data \in DayRecipeInputs : set_recipe(data)
    \/ ShopOpen /\ \E data \in DayBuyRequests : buy_item(data) /\ WithinStock(data)
    \/ game.day <= MaxSeason /\ \E rnd \in DayDrawsWide : start_day(rnd)
    \/ reset_game

SpecDay == Init /\ [][NextDay]_vars

\* the same handlers under requests for every upgrade track, paid for by a
\* purchase of a negative quantity
NextUpgrade ==
    \/ ShopOpen /\ \E data \in UpgradeBuyRequests : buy_item(data) /\ WithinStock(data)
    \/ ShopOpen /\ \E u_type \in AllUpgradeRequests : buy_upgrade(u_type)
    \/ game.day <= MaxDay /\ \E rnd \in DayDraws : start_day(rnd)
    \/ reset_game

SpecUpgrade == Init /\ [][NextUpgrade]_vars

\* the same handlers under the highest price and purchases of lemons and
\* sugar: days of large profit
NextProfit ==
    \/ ShopOpen /\ \E price \in ProfitPriceInputs : set_price(price)
    \/ ShopOpen /\ \E data \in ProfitBuyRequests : buy_item(data) /\ WithinStock(data)
    \/ game.day <= MaxSeason /\ \E rnd \in DayDraws : start_day(rnd)
    \/ reset_game

SpecProfit == Init /\ [][NextProfit]_vars

\* start_day in steps with reset_game beside it.  A day is begun on the
\* first day of a game and one reset is sent while it runs; the coroutine
\* handlers wait for the day to end.
NextRace ==
    \/ ~Simulating /\ ShopOpen
           /\ \E data \in ProfitBuyRequests : buy_item(data) /\ WithinStock(data)
    \/ ~Simulating /\ ShopOpen /\ \E rnd \in DayDraws : day_begin(rnd)
    \/ day_tick
    \/ day_end
    \/ Simulating /\ ~call.reset_served /\ reset_in_thread
    \/ ~Simulating /\ reset_game

SpecRace == Init /\ [][NextRace]_vars

(***************************************************************************)
(* Properties.  `call` holds the last request and its response, so a step  *)
(* of a handler is a step whose call' names it.                            *)
(***************************************************************************)
\* the response is {"success": true, ...}
Succeeded(c) == "success" \in DOMAIN c.response /\ c.response.success

\* the response is {"success": false, "message": ...}
Declined(c) ==
    /\ DOMAIN c.response = {"success", "message"}
    /\ ~c.response.success

\* C1: an accepted buy of a known item takes unit cost x quantity from the
\* cash and adds quantity to the item's count
BuyAcceptedArithmetic ==
    [][(call'.op = "buy_item" /\ call'.data.item \in DOMAIN COSTS
            /\ Succeeded(call'))
        => LET d == call'.data
           IN /\ game'.cash = game.cash - COSTS[d.item] * d.quantity
              /\ game'.inventory[d.item] = game.inventory[d.item] + d.quantity]_vars

\* an accepted purchase of ten ice cubes has just been made
BuyAcceptedWitness ==
    /\ call.op = "buy_item"
    /\ call.data = [item |-> "ice", quantity |-> 10]
    /\ Succeeded(call)
    /\ game.inventory.ice = 20

\* C2: a buy whose cost (unit cost x quantity) exceeds the cash is declined
\* with a message and changes no field of the game state
BuyDeclinedUnchanged ==
    [][(call'.op = "buy_item" /\ call'.data.item \in DOMAIN COSTS
            /\ COSTS[call'.data.item] * call'.data.quantity > game.cash)
        => Declined(call') /\ game' = game]_vars

\* sixty lemons (30.00) have just been asked for with less cash than that
BuyDeclinedWitness ==
    /\ call.op = "buy_item"
    /\ call.data = [item |-> "lemons", quantity |-> 60]
    /\ game.cash < 30000
    /\ Declined(call)

\* C3: every inventory count is >= 0 in every reachable state
InventoryNonNegative ==
    \A item \in DOMAIN game.inventory : game.inventory[item] >= 0

\* C4: the reputation lies in [0, rep_cap of the current stand tier] in every
\* reachable state, in particular after every simulated day
ReputationWithinCap ==
    /\ game.reputation >= 0
    /\ game.reputation <= UPGRADES.stand[game.upgrades.stand + 1].rep_cap

\* a second perfect day of high quality has just left the reputation at the
\* cap of the first stand: it was at most 25 and has gained 15
ReputationCappedWitness ==
    /\ call.op = "start_day"
    /\ Len(game.history) = 2
    /\ call.response.summary.rep_change = 15
    /\ game.reputation = 30

\* C5: the summary's sold count plus its missed count is the number of
\* potential customers of the day
SoldPlusMissed ==
    call.op = "start_day"
        => call.response.summary.sold + call.response.summary.missed
               = call.potential_customers

\* a day has just ended with sales, warm or not, and with customers lost
\* during a power outage
SoldPlusMissedWitness ==
    /\ call.op = "start_day"
    /\ call.triggered_event = "outage"
    /\ call.response.summary.sold >= 2
    /\ call.response.summary.missed >= 2

\* C6: after a simulated day the ice count is <= the count just before the
\* melt, and the melted amount is floor(ice x (1 - ice_save of the fridge))
IceMeltFloor ==
    call.op = "start_day"
        => LET save_rate == UPGRADES.fridge[game.upgrades.fridge + 1].ice_save
           IN /\ game.inventory.ice <= call.ice_before_melt
              /\ call.ice_melted_count
                     = (call.ice_before_melt * (10 - save_rate)) \div 10

\* the sum of the rewards of the achievements of the sequence ids
RECURSIVE RewardSum(_)
RewardSum(ids) ==
    IF ids = << >> THEN 0 ELSE ACHIEVEMENTS[Head(ids)] + RewardSum(Tail(ids))

NoDuplicates(seq) ==
    \A i, j \in 1..Len(seq) : seq[i] = seq[j] => i = j

\* every achievement unlocked before the step is unlocked after it
AchievementsKept ==
    \A k \in 1..Len(game.achievements) :
        Contains(game'.achievements, game.achievements[k])

\* a day pays the day's revenue and the rewards of the achievements it
\* unlocks, each of them new and reported once
RewardsOfTheDay ==
    call'.op = "start_day" =>
        LET new == call'.response.achievements
        IN /\ game'.achievements = game.achievements \o new
           /\ game'.cash = game.cash
                   + (game'.stats.total_revenue - game.stats.total_revenue)
                   + RewardSum(new)

\* C7 as stated: over any sequence of operations an unlocked achievement
\* stays unlocked in every later state, is in the set at most once and is
\* rewarded at most once
AchievementsPermanent ==
    [][/\ AchievementsKept
       /\ NoDuplicates(game'.achievements)
       /\ RewardsOfTheDay]_vars

\* C7 amended: over any sequence of operations other than reset an unlocked
\* achievement stays unlocked; the set never holds an achievement twice and
\* a reward is paid only with the unlocking of a new achievement
AchievementsPermanentUntilReset ==
    [][/\ call'.op # "reset_game" => AchievementsKept
       /\ NoDuplicates(game'.achievements)
       /\ RewardsOfTheDay]_vars

\* a second day with sales has just ended; the first sale was rewarded on
\* the first day and is not rewarded again
AchievementsWitness ==
    /\ call.op = "start_day"
    /\ Len(game.history) = 2
    /\ game.history[1].sales >= 1
    /\ game.history[2].sales >= 1
    /\ game.achievements = <<"first_sale">>
    /\ call.response.achievements = << >>

\* C8: reset leaves exactly the initial defaults, whatever the state before
ResetRestoresDefaults ==
    call.op = "reset_game"
        => /\ Succeeded(call)
           /\ game = [cash |-> 25000, day |-> 1, reputation |-> 10, stars |-> 100,
                      inventory |-> [lemons |-> 5, sugar |-> 5, cups |-> 10,
                                     ice |-> 0],
                      price |-> 1000,
                      recipe |-> [lemon_ratio |-> 10, sugar_ratio |-> 10],
                      upgrades |-> [juicer |-> 0, stand |-> 0, fridge |-> 0,
                                    marketing |-> 0],
                      stats |-> [total_sales |-> 0, total_revenue |-> 0,
                                 best_day |-> 0, perfect_days |-> 0],
                      achievements |-> << >>, history |-> << >>,
                      weather |-> "sunny", next_weather |-> "cloudy",
                      active_event |-> None, streak |-> 0]

\* a reset has just been served
ResetWitness ==
    /\ call.op = "reset_game"
    /\ game.day = 1
    /\ game.history = << >>
    /\ game.active_event = None

\* C10: set-price accepts exactly the prices in [0.01, 10.00] and stores
\* them, declines the others with a reason and keeps the stored price, and
\* the stored price is in [0.01, 10.00] in every reachable state
SetPriceBounds ==
    /\ [](game.price \in 10..10000)
    /\ [][call'.op = "set_price"
            => IF call'.price \in 10..10000
               THEN Succeeded(call') /\ game' = [game EXCEPT !.price = call'.price]
               ELSE Declined(call') /\ game' = game]_vars

\* 10.001 has just been declined while the stored price is the upper bound
SetPriceWitness ==
    /\ call.op = "set_price"
    /\ call.price = 10001
    /\ Declined(call)
    /\ game.price = 10000

\* C11: an upgrade request for a known track is declined and changes nothing
\* when the track is at its last tier or the cash is less than the next
\* tier's cost; otherwise the cash decreases by that cost and the track's
\* level increases by one
UpgradeContract ==
    [][(call'.op = "buy_upgrade" /\ call'.type \in DOMAIN UPGRADES)
        => LET t == call'.type
               level == game.upgrades[t]
           IN IF \/ level >= Len(UPGRADES[t]) - 1
                 \/ game.cash < UPGRADES[t][level + 2].cost
              THEN Declined(call') /\ game' = game
              ELSE /\ Succeeded(call')
                   /\ game' = [game EXCEPT
                                 !.cash = @ - UPGRADES[t][level + 2].cost,
                                 !.upgrades[t] = level + 1]]_vars

\* the marketing track has been bought up to its last tier and one more
\* request for it has just been declined
UpgradeContractWitness ==
    /\ call.op = "buy_upgrade"
    /\ call.type = "marketing"
    /\ game.upgrades.marketing = 3
    /\ Declined(call)
    /\ game.cash = 3025000 - 75000 - 300000 - 800000

\* C12: every upgrade level is an index of its tier list, 0..2 for juicer,
\* stand and fridge and 0..3 for marketing, and no step but a reset lowers a
\* level
UpgradeLevelsValid ==
    /\ [](/\ game.upgrades.juicer \in 0..2
          /\ game.upgrades.stand \in 0..2
          /\ game.upgrades.fridge \in 0..2
          /\ game.upgrades.marketing \in 0..3)
    /\ [][call'.op # "reset_game"
            => \A t \in DOMAIN game.upgrades :
                   game'.upgrades[t] >= game.upgrades[t]]_vars

\* a day has just been simulated with every track at its last tier
UpgradeLevelsWitness ==
    /\ call.op = "start_day"
    /\ game.upgrades = [juicer |-> 2, stand |-> 2, fridge |-> 2, marketing |-> 3]

\* C13: a day whose net profit is at least 100, begun without profit_master,
\* leaves profit_master unlocked, lists it among the day's achievements and
\* has added its reward of 100 to the cash
ProfitMasterAwarded ==
    [][(/\ call'.op = "start_day"
        /\ call'.net_profit >= 100000
        /\ ~Contains(game.achievements, "profit_master"))
        => /\ Contains(game'.achievements, "profit_master")
           /\ Contains(call'.response.achievements, "profit_master")
           /\ game'.cash >= game.cash + call'.revenue
                                + ACHIEVEMENTS.profit_master]_vars

\* C14: a day on which every potential customer bought, begun without
\* perfect_day, leaves perfect_day unlocked and has added its reward of 75
\* to the cash
PerfectDayAwarded ==
    [][(/\ call'.op = "start_day"
        /\ call'.potential_customers > 0
        /\ call'.response.summary.sold = call'.potential_customers
        /\ ~Contains(game.achievements, "perfect_day"))
        => /\ Contains(game'.achievements, "perfect_day")
           /\ game'.cash >= game.cash + call'.revenue
                                + ACHIEVEMENTS.perfect_day]_vars

\* C15: operations take effect one at a time, reset included: the state a
\* day ends in is the result of a serial order of the whole operations that
\* ran, the day alone on the state it began in or, when a reset was served
\* while it ran, the day and then the reset or the reset and then the day
DaySerializable ==
    (call.op = "start_day" /\ "began" \in DOMAIN call)
        => \/ game = DayResult(call.began, call.rnd).game
           \/ call.reset_served /\ game = reset
           \/ call.reset_served /\ game = DayResult(reset, call.rnd).game

\* C16: a buy naming an unknown item and an upgrade naming an unknown track
\* are answered with a decline and a reason, not with an error, and change
\* nothing
UnknownNamesDeclined ==
    [][(\/ call'.op = "buy_item" /\ call'.data.item \notin DOMAIN COSTS
        \/ call'.op = "buy_upgrade" /\ call'.type \notin DOMAIN UPGRADES)
        => Declined(call') /\ game' = game]_vars

\* C17: a day adds its revenue to the cash and takes neither the cost of
\* goods nor the ice loss: cash after = cash before + revenue + the rewards
\* of the achievements unlocked that day; total_revenue grows by the
\* revenue, total_sales by the units sold, best_day is the larger of
\* best_day and the units sold
DayAccounting ==
    [][call'.op = "start_day"
        => LET sold == call'.response.summary.sold
               unlocked == SubSeq(game'.achievements,
                                  Len(game.achievements) + 1,
                                  Len(game'.achievements))
           IN /\ game'.cash = game.cash + call'.revenue + RewardSum(unlocked)
              /\ game'.stats.total_revenue
                     = game.stats.total_revenue + call'.revenue
              /\ game'.stats.total_sales = game.stats.total_sales + sold
              /\ game'.stats.best_day = Max(game.stats.best_day, sold)]_vars

\* a first day has just ended with sales, a cost of goods, melted ice and
\* the reward of the first sale
DayAccountingWitness ==
    /\ call.op = "start_day"
    /\ Len(game.history) = 1
    /\ call.response.summary.sold >= 1
    /\ call.response.summary.cogs > 0
    /\ call.response.summary.ice_loss > 0
    /\ call.response.achievements = <<"first_sale">>

\* C18: a day of net profit > 0 adds one to the streak, any other day sets
\* it to zero, and no operation but a day and a reset changes it
StreakContract ==
    [][/\ call'.op = "start_day"
           => game'.streak = IF call'.net_profit > 0 THEN game.streak + 1 ELSE 0
       /\ call'.op \notin {"start_day", "reset_game"}
           => game'.streak = game.streak]_vars

\* a day without profit has just ended a streak of one
StreakWitness ==
    /\ call.op = "start_day"
    /\ Len(game.history) = 2
    /\ game.history[1].net_profit > 0
    /\ call.net_profit <= 0
    /\ game.streak = 0

\* C19: a day adds one to the day counter, makes the stored forecast the
\* weather and stores a new forecast among sunny, cloudy, rainy and hot
WeatherRollover ==
    [][call'.op = "start_day"
        => /\ game'.day = game.day + 1
           /\ game'.weather = game.next_weather
           /\ game'.next_weather \in Weathers]_vars

\* the second day has just ended: the rain forecast on it is the weather of
\* the third day
WeatherRolloverWitness ==
    /\ call.op = "start_day"
    /\ game.day = 3
    /\ game.weather = "rainy"
    /\ game.next_weather # "rainy"

\* C20: set-recipe succeeds and stores each ratio clamped into [0.5, 1.5],
\* and both ratios are within [0.5, 1.5] in every reachable state
RecipeClamped ==
    /\ [](/\ game.recipe.lemon_ratio \in 5..15
          /\ game.recipe.sugar_ratio \in 5..15)
    /\ [][call'.op = "set_recipe"
            => /\ Succeeded(call')
               /\ game' = [game EXCEPT
                             !.recipe.lemon_ratio =
                                 Max(5, Min(15, call'.data.lemon_ratio)),
                             !.recipe.sugar_ratio =
                                 Max(5, Min(15, call'.data.sugar_ratio))]]_vars

\* ratios of 0.4 and 1.6 have just been asked for and stored as 0.5 and 1.5
RecipeClampedWitness ==
    /\ call.op = "set_recipe"
    /\ call.data = [lemon_ratio |-> 4, sugar_ratio |-> 16]
    /\ game.recipe = [lemon_ratio |-> 5, sugar_ratio |-> 15]

\* the number of entries of a log with the given message
RECURSIVE CountMsg(_, _)
CountMsg(log, msg) ==
    IF log = << >> THEN 0
    ELSE (IF log[1].msg = msg THEN 1 ELSE 0) + CountMsg(Tail(log), msg)

\* C21: a day takes one lemon, one sugar and one cup for every unit sold, so
\* each of the three ends the day at its count of the start less the units
\* sold.  Ice goes into a sale exactly when there is ice in stock (a warm sale
\* is made only without ice): the ice used is the smaller of the ice the loop
\* started with and the units sold, and no more warm sales are logged than
\* sales without ice.  The cost of goods is 0.80 for each unit sold plus 0.05
\* for each unit of ice used.
SaleAccounting ==
    [][call'.op = "start_day" =>
          LET summary == call'.response.summary
              ice_start == IF call'.triggered_event = "outage"
                              /\ game.upgrades.fridge = 0
                           THEN 0
                           ELSE game.inventory.ice
              ice_used == ice_start - call'.ice_before_melt
          IN /\ game'.inventory.lemons = game.inventory.lemons - summary.sold
             /\ game'.inventory.sugar = game.inventory.sugar - summary.sold
             /\ game'.inventory.cups = game.inventory.cups - summary.sold
             /\ ice_used = Min(Max(ice_start, 0), summary.sold)
             /\ CountMsg(call'.response.log, "Warm sale")
                    <= summary.sold - ice_used
             /\ summary.cogs = 800 * summary.sold + 50 * ice_used]_vars

\* a day of sixteen sales that began with fifteen units of ice: the last
\* sale went without ice
SaleAccountingWitness ==
    /\ call.op = "start_day"
    /\ call.response.summary.sold = 16
    /\ call.ice_before_melt = 0
    /\ call.response.summary.cogs = 16 * 800 + 15 * 50
    /\ game.inventory.lemons = 4

\* C22: the reputation change of a day is drawn from 8..12 when every
\* potential customer bought, from 3..6 when more than 75% did, from -8..-3
\* when fewer than 40% did and is 0 otherwise; 3 is added to it when the
\* overall quality is above 1.3 and 3 taken from it when below 0.8.  The new
\* reputation is the old one plus the change, clamped into
\* [0, rep_cap of the stand].
ReputationDelta ==
    [][call'.op = "start_day" =>
          LET sold == call'.response.summary.sold
              potential == call'.potential_customers
              quality == OverallQuality(game)
              adjustment == IF quality > 260 THEN 3
                            ELSE IF quality < 160 THEN -3 ELSE 0
              rep_change == call'.response.summary.rep_change
              drawn == rep_change - adjustment
              stand_cap == UPGRADES.stand[game.upgrades.stand + 1].rep_cap
          IN /\ potential > 0
             /\ IF sold = potential THEN drawn \in 8..12
                ELSE IF 4 * sold > 3 * potential THEN drawn \in 3..6
                ELSE IF 5 * sold < 2 * potential THEN drawn \in (-8)..(-3)
                ELSE drawn = 0
             /\ game'.reputation
                    = Max(0, Min(stand_cap, game.reputation + rep_change))]_vars

\* a day of poor quality on which nobody bought: the change of -8 - 3 = -11
\* would take the reputation of 10 below 0, and it is left at 0
ReputationDeltaWitness ==
    /\ call.op = "start_day"
    /\ call.response.summary.sold = 0
    /\ call.response.summary.rep_change = -11
    /\ game.reputation = 0
    /\ Len(game.history) = 1

\* C23: after a simulated day the last entry of the history carries the
\* number of that day, and its cash field is the cash of the state the
\* response returns
HistoryCashIsReturnedCash ==
    call.op = "start_day" =>
        /\ game.history # << >>
        /\ LET entry == game.history[Len(game.history)]
           IN /\ entry.day = game.day - 1
              /\ entry.day = call.response.new_state.day - 1
              /\ entry.cash = call.response.new_state.cash

\* C24: after every simulated day the active event is the event that was
\* triggered on that day, and there is none when no event was triggered
ActiveEventIsTodaysEvent ==
    call.op = "start_day" =>
        /\ game.active_event = call.triggered_event
        /\ call.response.new_state.active_event = call.triggered_event

\* C25: in every reachable state, the initial state and the state after a
\* reset among them, stars = 1 + reputation / 25 (in hundredths:
\* 100 + 4 * reputation), and so 1 <= stars <= 5
StarsFromReputation ==
    /\ game.stars = 100 + 4 * game.reputation
    /\ game.stars >= 100
    /\ game.stars <= 500

\* C26: a set-price request changes nothing but the price, a set-recipe
\* request nothing but the two ratios, a buy request nothing but the cash and
\* the count of the item bought, an upgrade request nothing but the cash and
\* the level of the track; none of the four changes the day, the reputation,
\* the stars, the stats, the history, the achievements, the weather, the
\* next weather, the active event or the streak
ShopFrame ==
    [][/\ call'.op = "set_price" =>
              game' = [game EXCEPT !.price = game'.price]
       /\ call'.op = "set_recipe" =>
              game' = [game EXCEPT
                         !.recipe.lemon_ratio = game'.recipe.lemon_ratio,
                         !.recipe.sugar_ratio = game'.recipe.sugar_ratio]
       /\ call'.op = "buy_item" =>
              IF call'.data.item \in DOMAIN game.inventory
              THEN game' = [game EXCEPT
                              !.cash = game'.cash,
                              !.inventory[call'.data.item] =
                                  game'.inventory[call'.data.item]]
              ELSE game' = game
       /\ call'.op = "buy_upgrade" =>
              IF call'.type \in DOMAIN game.upgrades
              THEN game' = [game EXCEPT
                              !.cash = game'.cash,
                              !.upgrades[call'.type] = game'.upgrades[call'.type]]
              ELSE game' = game
       /\ call'.op \in {"set_price", "set_recipe", "buy_item", "buy_upgrade"} =>
              /\ game'.day = game.day
              /\ game'.reputation = game.reputation
              /\ game'.stars = game.stars
              /\ game'.stats = game.stats
              /\ game'.history = game.history
              /\ game'.achievements = game.achievements
              /\ game'.weather = game.weather
              /\ game'.next_weather = game.next_weather
              /\ game'.active_event = game.active_event
              /\ game'.streak = game.streak]_vars

\* all four requests have been accepted, the upgrade of the fridge last: the
\* price, the recipe, the ice and the fridge have their new values and the
\* rest of the state is as the game began
ShopFrameWitness ==
    /\ call.op = "buy_upgrade"
    /\ call.type = "fridge"
    /\ Succeeded(call)
    /\ game.price = 10000
    /\ game.recipe = [lemon_ratio |-> 5, sugar_ratio |-> 15]
    /\ game.inventory.ice = 10
    /\ game.upgrades.fridge = 1
    /\ game.day = 1
    /\ game.stars = 100
    /\ game.history = << >>

\* C27: the cash is never negative
CashNonNegative == game.cash >= 0

\* an upgrade that costs more than the cash at hand has just been refused,
\* and a purchase before it has spent some of the cash
CashNonNegativeWitness ==
    /\ call.op = "buy_upgrade"
    /\ Declined(call)
    /\ call.response.message = "Not enough cash!"
    /\ game.cash < 25000
    /\ game.cash < UPGRADES[call.type][game.upgrades[call.type] + 2].cost

\* the sum of the sales fields of a history
RECURSIVE SalesSum(_)
SalesSum(history) ==
    IF history = << >> THEN 0
    ELSE history[1].sales + SalesSum(Tail(history))

\* C28: the history holds exactly day - 1 entries, its i-th entry carries the
\* day number i, and stats.total_sales is the sum of the sales fields of the
\* history
HistoryMatchesDay ==
    /\ Len(game.history) = game.day - 1
    /\ \A i \in 1..Len(game.history) : game.history[i].day = i
    /\ game.stats.total_sales = SalesSum(game.history)

\* two days with different sales have been simulated: the game is on day 3
\* with two entries in its history
HistoryMatchesDayWitness ==
    /\ game.day = 3
    /\ Len(game.history) = 2
    /\ game.history[1].sales > game.history[2].sales
    /\ game.history[2].sales > 0
    /\ game.stats.total_sales = game.history[1].sales + game.history[2].sales

\* C29: in the log of a day every entry after a SOLD OUT miss is a SOLD OUT
\* miss too, apart from the closing special entry, so that no sale follows
\* one; the units sold do not exceed the least of the lemons, the sugar and
\* the cups the day started with; a day started with one of the three at
\* zero sells nothing
SoldOutIsFinal ==
    [][call'.op = "start_day" =>
          LET log == call'.response.log
              sold == call'.response.summary.sold
              basics == Min(game.inventory.lemons,
                            Min(game.inventory.sugar, game.inventory.cups))
          IN /\ \A j, k \in 1..Len(log) :
                    (j < k /\ log[j].msg = "SOLD OUT") =>
                        /\ log[k].type # "sale"
                        /\ log[k].type = "miss" => log[k].msg = "SOLD OUT"
             /\ sold <= basics
             /\ (\E item \in {"lemons", "sugar", "cups"} :
                     game.inventory[item] = 0) => sold = 0]_vars

\* the number of entries of a log with the given type
RECURSIVE CountType(_, _)
CountType(log, type) ==
    IF log = << >> THEN 0
    ELSE (IF log[1].type = type THEN 1 ELSE 0) + CountType(Tail(log), type)

\* the sum of the prices of the sale and special entries of a log
RECURSIVE PriceSum(_)
PriceSum(log) ==
    IF log = << >> THEN 0
    ELSE (IF log[1].type \in {"sale", "special"} THEN log[1].price ELSE 0)
         + PriceSum(Tail(log))

\* the log of the last day has one entry per potential customer, with the
\* ticks 0..n-1 in order, closed by one special entry of 50.00 exactly when
\* the celebrity event was triggered; its sale entries are as many as the
\* units sold and its miss entries as many as the customers missed; a sale
\* entry carries the price, 1.1 x the price when premium and 0.8 x the price
\* when warm
LogShape ==
    LET log == call.response.log
        n == call.potential_customers
        celebrity == call.triggered_event = "celebrity"
    IN /\ Len(log) = n + (IF celebrity THEN 1 ELSE 0)
       /\ \A k \in 1..n : log[k].tick = k - 1 /\ log[k].type \in {"sale", "miss"}
       /\ celebrity => log[n + 1] = [tick |-> n, type |-> "special",
                                     msg |-> "CELEBRITY TIP!", price |-> 50000]
       /\ CountType(log, "sale") = call.response.summary.sold
       /\ CountType(log, "miss") = call.response.summary.missed
       /\ \A k \in 1..n :
              log[k].type = "sale" =>
                  log[k].price =
                      CASE log[k].msg = "Warm sale" -> (game.price * 8) \div 10
                        [] log[k].msg = "PREMIUM sale!" -> (game.price * 11) \div 10
                        [] OTHER -> game.price

\* C30: the log and the summary of a day agree: the log is shaped as LogShape
\* says, and the revenue of the summary is the sum of the prices of the sale
\* and special entries of the log
LogMatchesSummary ==
    call.op = "start_day" =>
        /\ LogShape
        /\ call.response.summary.revenue = PriceSum(call.response.log)

\* C30 with the rounding of the summary: the log is shaped as LogShape says,
\* the revenue of the day is the sum of the prices of the sale and special
\* entries of the log, and the revenue of the summary is that sum rounded to
\* the cent
LogMatchesSummaryRounded ==
    call.op = "start_day" =>
        /\ LogShape
        /\ call.revenue = PriceSum(call.response.log)
        /\ call.response.summary.revenue = Round2(PriceSum(call.response.log))

\* a celebrity day with warm sales, sales at the price and misses, whose sum
\* of prices is not a whole number of cents
LogMatchesSummaryWitness ==
    /\ call.op = "start_day"
    /\ call.triggered_event = "celebrity"
    /\ Len(call.response.log) = call.potential_customers + 1
    /\ CountMsg(call.response.log, "Warm sale") >= 1
    /\ CountMsg(call.response.log, "Sold!") >= 1
    /\ call.response.summary.missed >= 1
    /\ call.response.summary.revenue # PriceSum(call.response.log)

====
